---- MODULE Spec2Model ----
(***************************************************************************)
(* A model of packages/react-tinacms/src/use-form.ts: the useCMSForm hook  *)
(* (the form lifecycle binder) and syncFormWithCurrentValues (the          *)
(* inactive-field reconciler) with its path-pattern expansion.             *)
(*                                                                         *)
(* Values trees are tagged records: kind is the JavaScript kind, payload   *)
(* the content.  A string is the sequence of its characters, so that       *)
(* .length and indexing are those of the string.  A field path is the      *)
(* sequence of its tokens: ".", "INDEX", and atoms that hold neither; the  *)
(* string                                                                  *)
(* operations of the source (test, split, replace, the dot-path parsing of *)
(* get) are computed on the tokens.  No key of a tree is "length" or the   *)
(* name of a prototype member, and no key holds a dot or a bracket.        *)
(***************************************************************************)
EXTENDS Integers, Sequences, FiniteSets, TLC

----------------------------------------------------------------------------
(* Bounds of the model                                                     *)

\* the longest list of a values tree
MaxLen == 2
\* how many path patterns are registered on a form (hidden and declared)
MaxPatterns == 2
\* how many times the component is mounted or its options are changed
MaxChanges == 3
\* how many calls of findInactiveFieldsInPath may wait to be made: more than
\* a pattern of three INDEX on lists of MaxLen items needs
MaxStack == 3 * MaxLen

----------------------------------------------------------------------------
(* JavaScript values                                                       *)

Undef == [kind |-> "undef", payload |-> 0]
Str(chars) == [kind |-> "str", payload |-> chars]
Num(n) == [kind |-> "num", payload |-> n]
List(items) == [kind |-> "list", payload |-> items]
Obj(props) == [kind |-> "obj", payload |-> props]

NoProps == [key \in {} |-> Undef]

\* object[key] for a string key, as a property read of JavaScript
Prop(object, key) ==
  CASE object.kind = "obj" ->
         IF key \in DOMAIN object.payload THEN object.payload[key] ELSE Undef
    [] object.kind = "list" ->
         IF \E i \in 1..Len(object.payload) : ToString(i - 1) = key
         THEN object.payload[CHOOSE i \in 1..Len(object.payload) : ToString(i - 1) = key]
         ELSE Undef
    [] object.kind = "str" ->
         IF \E i \in 1..Len(object.payload) : ToString(i - 1) = key
         THEN Str(<<object.payload[CHOOSE i \in 1..Len(object.payload) : ToString(i - 1) = key]>>)
         ELSE Undef
    [] OTHER -> Undef

\* value.length
Length(value) ==
  IF value.kind \in {"list", "str"} THEN Len(value.payload) ELSE 0

\* the truthiness of a value: if (value)
Truthy(value) ==
  CASE value.kind = "undef" -> FALSE
    [] value.kind = "str" -> value.payload # <<>>
    [] value.kind = "num" -> value.payload # 0
    [] OTHER -> TRUE

----------------------------------------------------------------------------
(* Path strings                                                            *)

RECURSIVE Join(_)
Join(tokens) ==
  IF tokens = <<>> THEN "" ELSE Head(tokens) \o Join(Tail(tokens))

\* the index of the first occurrence of the token sequence pat, 0 if none
IndexOf(path, pat) ==
  LET hits == {i \in 1..(Len(path) - Len(pat) + 1) :
                 SubSeq(path, i, i + Len(pat) - 1) = pat}
  IN IF hits = {} THEN 0 ELSE CHOOSE i \in hits : \A j \in hits : i <= j

\* /INDEX/.test(path)
TestINDEX(path) == IndexOf(path, <<"INDEX">>) # 0

\* path.split('.INDEX.')[0]
ListPath(path) ==
  LET at == IndexOf(path, <<".", "INDEX", ".">>)
  IN IF at = 0 THEN path ELSE SubSeq(path, 1, at - 1)

\* a faulty variant of IndexPath: the indices are counted from 1
IndexPathFromOne(path, i) ==
  LET at == IndexOf(path, <<"INDEX">>)
  IN IF at = 0 THEN path
     ELSE SubSeq(path, 1, at - 1) \o <<ToString(i + 1)>> \o SubSeq(path, at + 1, Len(path))

\* a faulty variant of IndexPath: INDEX is left in the path
IndexPathKept(path, i) == path

\* path.replace('INDEX', `${i}`)
IndexPath(path, i) ==
  LET at == IndexOf(path, <<"INDEX">>)
  IN IF at = 0 THEN path
     ELSE SubSeq(path, 1, at - 1) \o <<ToString(i)>> \o SubSeq(path, at + 1, Len(path))

\* the keys of a dot path
RECURSIVE stringToPath(_)
stringToPath(path) ==
  LET dot == IndexOf(path, <<".">>)
  IN IF dot = 0 THEN <<Join(path)>>
     ELSE <<Join(SubSeq(path, 1, dot - 1))>> \o stringToPath(SubSeq(path, dot + 1, Len(path)))

RECURSIVE baseGet(_, _)
baseGet(object, keys) ==
  IF keys = <<>> \/ object.kind = "undef" THEN object
  ELSE baseGet(Prop(object, Head(keys)), Tail(keys))

\* lodash.get(object, path, defaultValue)
getOr(object, path, defaultValue) ==
  LET result == baseGet(object, stringToPath(path))
  IN IF result = Undef THEN defaultValue ELSE result

\* lodash.get(object, path)
get(object, path) == getOr(object, path, Undef)

----------------------------------------------------------------------------
(* The form engine: the values tree and the field states of form.finalForm *)

Throw == [kind |-> "throw", payload |-> 0]

\* !isNaN(key) for a key of a path
IsNumeric(key) == key \in {ToString(i) : i \in 0..MaxLen}

NumericKey(key) == CHOOSE i \in 0..MaxLen : ToString(i) = key

\* the own enumerable properties of a value that is spread into an object
OwnProps(current) ==
  CASE current.kind = "obj" -> current.payload
    [] current.kind = "str" ->
         [key \in {ToString(i - 1) : i \in 1..Len(current.payload)} |->
            Str(<<current.payload[CHOOSE i \in 1..Len(current.payload) : ToString(i - 1) = key]>>)]
    [] OTHER -> NoProps

\* array[n] = result on a copy of the array (a hole reads undefined)
ArraySet(items, n, result) ==
  [i \in 1..(IF n + 1 > Len(items) THEN n + 1 ELSE Len(items)) |->
     IF i = n + 1 THEN result ELSE IF i <= Len(items) THEN items[i] ELSE Undef]

\* final-form's getIn: only objects and arrays are descended into
RECURSIVE getInKeys(_, _)
getInKeys(current, keys) ==
  IF keys = <<>> THEN current
  ELSE IF current.kind \notin {"obj", "list"} THEN Undef
  ELSE IF current.kind = "list" /\ ~IsNumeric(Head(keys)) THEN Undef
  ELSE getInKeys(Prop(current, Head(keys)), Tail(keys))

getIn(state, name) == getInKeys(state, stringToPath(name))

\* final-form's setIn: an undefined value deletes the key, and with it an
\* object that held nothing else; a key of the wrong kind throws
RECURSIVE setInRecursor(_, _, _, _)
setInRecursor(current, keys, inArray, value) ==
  IF keys = <<>> THEN value
  ELSE
    LET key == Head(keys) IN
    IF ~IsNumeric(key)
    THEN IF current.kind = "undef"
         THEN LET result == setInRecursor(Undef, Tail(keys), FALSE, value)
              IN IF result \in {Undef, Throw} THEN result ELSE Obj(key :> result)
         ELSE IF current.kind = "list" THEN Throw
         ELSE LET own == OwnProps(current)
                  had == IF key \in DOMAIN own THEN own[key] ELSE Undef
                  result == setInRecursor(had, Tail(keys), FALSE, value)
                  numKeys == Cardinality(DOMAIN own)
              IN IF result = Throw THEN Throw
                 ELSE IF result = Undef
                 THEN IF had = Undef /\ numKeys = 0 THEN Undef
                      ELSE IF had # Undef /\ numKeys <= 1
                      THEN (IF inArray THEN Obj(NoProps) ELSE Undef)
                      ELSE Obj([q \in DOMAIN own \ {key} |-> own[q]])
                 ELSE Obj([q \in DOMAIN own \cup {key} |->
                             IF q = key THEN result ELSE own[q]])
    ELSE IF current.kind = "undef"
         THEN LET result == setInRecursor(Undef, Tail(keys), TRUE, value)
              IN IF result \in {Undef, Throw} THEN result
                 ELSE List(ArraySet(<<>>, NumericKey(key), result))
         ELSE IF current.kind # "list" THEN Throw
         ELSE LET result == setInRecursor(Prop(current, key), Tail(keys), TRUE, value)
              IN IF result = Throw THEN Throw
                 ELSE List(ArraySet(current.payload, NumericKey(key), result))

\* changeValue: state.formState.values = setIn(values, name, value) || {}
setIn(state, name, value) ==
  LET result == setInRecursor(state, stringToPath(name), FALSE, value)
  IN IF result = Undef THEN Obj(NoProps) ELSE result

\* form.finalForm.change(name, value) on the values tree: Throw when setIn throws
change(values, name, value) ==
  IF getIn(values, name) # value THEN setIn(values, name, value) ELSE values

\* form.finalForm.getFieldState(path): whether a field state exists, and its active flag
HasFieldState(form, path) == path \in DOMAIN form.fieldStates
IsActive(form, path) == HasFieldState(form, path) /\ form.fieldStates[path]

----------------------------------------------------------------------------
(* The inactive-field reconciler                                           *)

RECURSIVE findInactiveFieldsInPath(_, _)
RECURSIVE indexLoop(_, _, _, _)

\* a faulty variant of InactiveTest: a path without a field state is skipped
InactiveTestNeedsState(form, path) ==
  HasFieldState(form, path) /\ ~form.fieldStates[path]

\* !state || !state.active
InactiveTest(form, path) == ~IsActive(form, path)

\* for (let i = 0; i < listState.length; i++): the paths of the indices i..length-1
indexLoop(form, path, i, length) ==
  IF i < length
  THEN findInactiveFieldsInPath(form, IndexPath(path, i))
         \o indexLoop(form, path, i + 1, length)
  ELSE <<>>

\* a faulty variant of ListLength: the loop walks one index too many
ListLengthInclusive(listState) ==
  IF Truthy(listState) THEN Length(listState) + 1 ELSE 0

\* how many indices the loop walks: if (listState) ... i < listState.length
ListLength(listState) ==
  IF Truthy(listState) THEN Length(listState) ELSE 0

findInactiveFieldsInPath(form, path) ==
  IF TestINDEX(path)
  THEN LET listPath == ListPath(path)
           listState == getOr(form.values, listPath, List(<<>>))
       IN indexLoop(form, path, 0, ListLength(listState))
  ELSE IF InactiveTest(form, path) THEN <<path>> ELSE <<>>

RECURSIVE concatPaths(_, _)
concatPaths(form, allFields) ==
  IF allFields = <<>> THEN <<>>
  ELSE findInactiveFieldsInPath(form, Head(allFields))
         \o concatPaths(form, Tail(allFields))

\* hiddenFields.concat(declaredFields), each expanded, in the order of the entries
findInactiveFormFields(form) ==
  concatPaths(form, form.hiddenFields \o form.fieldSubscriptions)

\* a faulty variant of WrittenValue: a missing value is written as ''
WrittenValueOrEmpty(initialValues, path) == getOr(initialValues, path, Str(<<>>))

\* the value one write passes to change: get(initialValues, path)
WrittenValue(initialValues, path) == get(initialValues, path)

\* a faulty variant of forEachChange: a write that finds its value already
\* at the path removes it
RECURSIVE forEachChangeToggle(_, _, _, _)
forEachChangeToggle(values, paths, initialValues, steps) ==
  IF paths = <<>> THEN [values |-> values, threw |-> FALSE, steps |-> steps]
  ELSE LET written == WrittenValue(initialValues, Head(paths))
           next == IF getIn(values, Head(paths)) = written
                   THEN change(values, Head(paths), Undef)
                   ELSE change(values, Head(paths), written)
       IN IF next = Throw THEN [values |-> values, threw |-> TRUE, steps |-> steps]
          ELSE forEachChangeToggle(next, Tail(paths), initialValues,
                                   IF next = values THEN steps ELSE Append(steps, next))

\* paths.forEach(path => form.finalForm.change(path, get(initialValues, path))):
\* the values after the writes, the values after each write that changed
\* them, and whether a write threw (the writes after it are not run)
RECURSIVE forEachChange(_, _, _, _)
forEachChange(values, paths, initialValues, steps) ==
  IF paths = <<>> THEN [values |-> values, threw |-> FALSE, steps |-> steps]
  ELSE LET next == change(values, Head(paths), WrittenValue(initialValues, Head(paths)))
       IN IF next = Throw THEN [values |-> values, threw |-> TRUE, steps |-> steps]
          ELSE forEachChange(next, Tail(paths), initialValues,
                             IF next = values THEN steps ELSE Append(steps, next))

\* form.finalForm.batch(fn): the value listeners are not called while fn
\* runs; when it has returned they are called once if the values changed.
\* Yields the values trees a value listener is called with.
batch(run) ==
  IF run.threw \/ run.steps = <<>> THEN <<>> ELSE <<run.values>>

\* the same writes outside a batch: a value listener is called after each
\* write that changed the values
unbatched(run) == run.steps

\* a faulty variant of syncFormWithCurrentValues: the writes are not batched
syncWithoutBatch(form, initialValues) ==
  LET paths == findInactiveFormFields(form)
      run == forEachChange(form.values, paths, initialValues, <<>>)
  IN [values |-> run.values, paths |-> paths, threw |-> run.threw,
      seen |-> unbatched(run)]

\* the body of the effect of syncFormWithCurrentValues on a form that is bound
syncFormWithCurrentValues(form, initialValues) ==
  LET paths == findInactiveFormFields(form)
      run == forEachChange(form.values, paths, initialValues, <<>>)
  IN [values |-> run.values, paths |-> paths, threw |-> run.threw,
      seen |-> batch(run)]

----------------------------------------------------------------------------
(* The state                                                               *)

VARIABLES
  nodeEnv,     \* process.env.NODE_ENV
  options,     \* the configuration the next render is called with
  mounted,     \* whether the component that calls useCMSForm is mounted
  hookForm,    \* React state form: a form object, or NoForm for undefined
  hookValues,  \* React state _ : the values last passed to setValues
  closure,     \* what the last render captured: its form, its options, the external values
  ret,         \* what the last call of useCMSForm returned
  deps,        \* the dependencies of the last render, per effect
  cleanup,     \* the form the pending cleanup of createForm closes over, or NoForm
  queue,       \* the effect callbacks of the last render still to run, in order
  dirty,       \* a render is due: a state setter was called or the options changed
  forms,       \* the form objects ever created, by object identity
  registry,    \* cms.forms: the registered forms, by form id
  listeners,   \* the form objects the binding's value listener is subscribed to
  history,     \* per form object, how often it was subscribed to, unsubscribed from, removed
  calls,       \* the calls the handler that has just run made on the form registry and on forms
  lastSync,    \* the run of the reconciler in the handler that has just run, if any
  expanded,    \* the last call of findInactiveFieldsInPath and its result
  stack,       \* the calls of findInactiveFieldsInPath still to be made, in order
  changes      \* how many times the environment has mounted or changed the options

vars == <<nodeEnv, options, mounted, hookForm, hookValues, closure, ret, deps,
          cleanup, queue, dirty, forms, registry, listeners, history, calls,
          lastSync, expanded, stack, changes>>

\* what is left alone by groups of handlers
reactVars == <<hookForm, hookValues, closure, ret, deps, cleanup, queue, dirty>>
engineVars == <<forms, registry, listeners, history>>

NoForm == 0

\* a values tree held by reference: two references may hold equal trees
Ref(n, tree) == [ref |-> n, tree |-> tree]
NoValues == Ref(0, Undef)

\* currentValues || initialValues
OrElse(currentValues, initialValues) ==
  IF currentValues # NoValues THEN currentValues ELSE initialValues

NoSync == [ran |-> FALSE, form |-> NoForm, before |-> Undef, after |-> Undef,
           external |-> Undef, paths |-> <<>>, listening |-> FALSE,
           seen |-> <<>>, threw |-> FALSE]

NoExpansion == [ran |-> FALSE, form |-> NoForm, path |-> <<>>, paths |-> <<>>]

\* the concrete paths whose field state reports active
ActivePaths(form) == {path \in DOMAIN form.fieldStates : form.fieldStates[path]}

\* the effects of useCMSForm, in the order of their hooks
EffectOrder == <<"createForm", "updateFields", "label", "sync">>

\* no render yet: every effect is due
NoDeps == [e \in {"createForm", "updateFields", "label", "sync"} |-> <<>>]

Call(op, f) == [op |-> op, form |-> f]

\* a handler that calls neither the form registry nor a form
NoCalls == calls' = <<>> /\ lastSync' = NoSync /\ UNCHANGED <<expanded, stack>>

----------------------------------------------------------------------------
(* The form registry and the forms of @tinacms/core                        *)

pTitle == <<"title">>
pAuthor == <<"author">>
pAuthorName == <<"author", ".", "name">>
pAuthorsName == <<"authors", ".", "INDEX", ".", "name">>
pBooksTitle == <<"authors", ".", "INDEX", ".", "books", ".", "INDEX", ".", "title">>

\* the paths a set of field definitions declares
DeclaredPaths(fields) == IF fields = 1 THEN <<pTitle>> ELSE <<pTitle, pAuthorName>>

\* a form object
FormObject(id, label, fields, tree, hidden, declared, fieldStates) ==
  [id |-> id, label |-> label, fields |-> fields, values |-> tree,
   hiddenFields |-> hidden, fieldSubscriptions |-> declared,
   fieldStates |-> fieldStates]

\* the field states after the paths are registered: a new field has no focus
RegisterFields(fieldStates, paths) ==
  [path \in {paths[i] : i \in 1..Len(paths)} |->
     IF path \in DOMAIN fieldStates THEN fieldStates[path] ELSE FALSE]

\* cms.forms.createForm(options): the form object it returns
createForm(opts) ==
  FormObject(opts.id, opts.label, opts.fields, opts.initialValues.tree, <<>>,
             DeclaredPaths(opts.fields),
             RegisterFields(<<>>, DeclaredPaths(opts.fields)))

\* form.updateFields(fields)
updateFields(form, fields) ==
  [form EXCEPT !.fields = fields,
               !.fieldSubscriptions = DeclaredPaths(fields),
               !.fieldStates = RegisterFields(form.fieldStates, DeclaredPaths(fields))]

\* the registry after cms.forms.createForm registered form object f under id
Registered(reg, id, f) ==
  [i \in DOMAIN reg \cup {id} |-> IF i = id THEN f ELSE reg[i]]

\* the registry after cms.forms.removeForm(id)
Removed(reg, id) == [i \in DOMAIN reg \ {id} |-> reg[i]]

\* the form objects in the registry
RegisteredForms == {registry[i] : i \in DOMAIN registry}

\* one call of a cleanup on the engine: unsubscribe(), cms.forms.removeForm(form.id)
Perform(st, call) ==
  CASE call.op = "unsubscribe" ->
         [st EXCEPT !.listeners = @ \ {call.form},
                    !.history[call.form].unsubscribed = @ + 1]
    [] call.op = "removeForm" ->
         [st EXCEPT !.registry = Removed(@, forms[call.form].id),
                    !.history[call.form].removed = @ + 1]

RECURSIVE PerformAll(_, _)
PerformAll(st, todo) ==
  IF todo = <<>> THEN st ELSE PerformAll(Perform(st, Head(todo)), Tail(todo))

----------------------------------------------------------------------------
(* useCMSForm                                                              *)

\* a faulty variant of teardown: the form is removed before the unsubscribe
teardownRemoveFirst(f) == <<Call("removeForm", f), Call("unsubscribe", f)>>

\* a faulty variant of teardown: the form is not removed
teardownNoRemove(f) == <<Call("unsubscribe", f)>>

\* a faulty variant of teardown: the listener is not unsubscribed
teardownNoUnsubscribe(f) == <<Call("removeForm", f)>>

\* the cleanup createForm returns: unsubscribe(); if (form) cms.forms.removeForm(form.id)
teardown(f) == <<Call("unsubscribe", f), Call("removeForm", f)>>

\* a faulty variant of IsProduction: the flag is compared with another word
IsProductionMisspelt == nodeEnv = "prod"

\* process.env.NODE_ENV === 'production'
IsProduction == nodeEnv = "production"

\* a faulty variant of createFormDeps: the field definitions are a dependency
createFormDepsWithFields(opts) == <<opts.id, opts.initialValues, opts.fields>>

\* the dependencies of the createForm effect: [options.id, options.initialValues]
createFormDeps(opts) == <<opts.id, opts.initialValues>>

\* a faulty variant of syncDeps: the values state is a dependency
syncDepsWithValues(form, initialValues) == <<form, initialValues, hookValues>>

\* the dependencies of the effect of syncFormWithCurrentValues: [form, initialValues]
syncDeps(form, initialValues) == <<form, initialValues>>

\* one call of useCMSForm by a render; first: the hooks hold no state yet
useCMSForm(first) ==
  IF IsProduction
  THEN /\ ret' = [values |-> options.initialValues.tree, form |-> NoForm]
       /\ dirty' = FALSE
       /\ UNCHANGED <<hookForm, hookValues, closure, deps, queue>>
  ELSE LET form == IF first THEN NoForm ELSE hookForm
           external == OrElse(options.currentValues, options.initialValues)
           last == IF first THEN NoDeps ELSE deps
           next == [createForm |-> createFormDeps(options),
                    updateFields |-> <<form, options.fields>>,
                    label |-> <<form, options.label>>,
                    sync |-> syncDeps(form, external)]
           IsDue(e) == last[e] # next[e]
           due == SelectSeq(EffectOrder, IsDue)
       IN /\ hookForm' = form
          /\ hookValues' = IF first THEN options.initialValues.tree ELSE hookValues
          /\ closure' = [form |-> form, options |-> options, external |-> external]
          /\ deps' = next
          /\ queue' = (IF IsDue("createForm") /\ cleanup # NoForm
                       THEN <<"cleanup">> ELSE <<>>) \o due
          /\ ret' = [values |-> IF form # NoForm THEN forms[form].values
                                ELSE options.initialValues.tree,
                     form |-> form]
          /\ dirty' = FALSE

\* the component is mounted: the first render
Mount ==
  /\ ~mounted /\ queue = <<>> /\ changes < MaxChanges
  /\ mounted' = TRUE
  /\ changes' = changes + 1
  /\ useCMSForm(TRUE)
  /\ NoCalls
  /\ UNCHANGED <<nodeEnv, options, cleanup, engineVars>>

\* a render after a state setter was called or the options changed
Render ==
  /\ mounted /\ dirty /\ queue = <<>>
  /\ useCMSForm(FALSE)
  /\ NoCalls
  /\ UNCHANGED <<nodeEnv, options, mounted, cleanup, engineVars,
                 changes>>

\* the cleanup of the createForm effect
CleanupEffect ==
  /\ queue # <<>> /\ Head(queue) = "cleanup"
  /\ queue' = Tail(queue)
  /\ LET st == PerformAll([registry |-> registry, listeners |-> listeners,
                           history |-> history], teardown(cleanup))
     IN /\ registry' = st.registry
        /\ listeners' = st.listeners
        /\ history' = st.history
  /\ calls' = teardown(cleanup)
  /\ cleanup' = NoForm
  /\ lastSync' = NoSync
  /\ UNCHANGED <<expanded, stack>>
  /\ UNCHANGED <<nodeEnv, options, mounted, hookForm, hookValues, closure, ret,
                 deps, dirty, forms, changes>>

\* React.useEffect(function createForm() {...}, [options.id, options.initialValues])
CreateFormEffect ==
  /\ queue # <<>> /\ Head(queue) = "createForm"
  /\ queue' = Tail(queue)
  /\ IF closure.options.initialValues = NoValues
     THEN /\ calls' = <<>>
          /\ UNCHANGED <<hookForm, hookValues, cleanup, dirty, engineVars>>
     ELSE LET f == Len(forms) + 1
              created == createForm(closure.options)
          IN /\ forms' = Append(forms, created)
             /\ registry' = Registered(registry, created.id, f)
             /\ hookForm' = f
             /\ listeners' = listeners \cup {f}
             /\ history' = Append(history, [subscribed |-> 1, unsubscribed |-> 0,
                                            removed |-> 0])
             /\ hookValues' = created.values
             /\ dirty' = TRUE
             /\ cleanup' = f
             /\ calls' = <<Call("createForm", f), Call("subscribe", f)>>
  /\ lastSync' = NoSync
  /\ UNCHANGED <<expanded, stack>>
  /\ UNCHANGED <<nodeEnv, options, mounted, closure, ret, deps, changes>>

\* React.useEffect(() => {...}, [form, options.fields])
UpdateFieldsEffect ==
  /\ queue # <<>> /\ Head(queue) = "updateFields"
  /\ queue' = Tail(queue)
  /\ IF closure.form = NoForm
     THEN calls' = <<>> /\ UNCHANGED forms
     ELSE /\ forms' = [forms EXCEPT ![closure.form] = updateFields(@, closure.options.fields)]
          /\ calls' = <<Call("updateFields", closure.form)>>
  /\ lastSync' = NoSync
  /\ UNCHANGED <<expanded, stack>>
  /\ UNCHANGED <<nodeEnv, options, mounted, hookForm, hookValues, closure, ret,
                 deps, cleanup, dirty, registry, listeners, history,
                 changes>>

\* React.useEffect(() => {...}, [form, options.label])
LabelEffect ==
  /\ queue # <<>> /\ Head(queue) = "label"
  /\ queue' = Tail(queue)
  /\ IF closure.form = NoForm
     THEN calls' = <<>> /\ UNCHANGED forms
     ELSE /\ forms' = [forms EXCEPT ![closure.form].label = closure.options.label]
          /\ calls' = <<Call("label", closure.form)>>
  /\ lastSync' = NoSync
  /\ UNCHANGED <<expanded, stack>>
  /\ UNCHANGED <<nodeEnv, options, mounted, hookForm, hookValues, closure, ret,
                 deps, cleanup, dirty, registry, listeners, history,
                 changes>>

\* React.useEffect(() => {...}, [form, initialValues]) of syncFormWithCurrentValues
SyncEffect ==
  /\ queue # <<>> /\ Head(queue) = "sync"
  /\ queue' = Tail(queue)
  /\ IF closure.form = NoForm
     THEN /\ calls' = <<>>
          /\ lastSync' = NoSync
          /\ UNCHANGED <<forms, hookValues, dirty>>
     ELSE LET f == closure.form
              run == syncFormWithCurrentValues(forms[f], closure.external.tree)
              told == IF f \in listeners THEN run.seen ELSE <<>>
          IN /\ forms' = [forms EXCEPT ![f].values = run.values]
             /\ lastSync' = [ran |-> TRUE, form |-> f, before |-> forms[f].values,
                             after |-> run.values,
                             external |-> closure.external.tree, paths |-> run.paths,
                             listening |-> f \in listeners,
                             seen |-> told, threw |-> run.threw]
             /\ calls' = <<Call("batch", f)>>
             /\ hookValues' = IF told = <<>> THEN hookValues ELSE told[Len(told)]
             /\ dirty' = (dirty \/ told # <<>>)
  /\ UNCHANGED <<nodeEnv, options, mounted, hookForm, closure, ret, deps, cleanup,
                 registry, listeners, history, expanded, stack, changes>>

\* the component is unmounted: the state of its hooks is dropped, and React
\* runs the cleanup that is pending
Unmount ==
  /\ mounted /\ queue = <<>>
  /\ mounted' = FALSE
  /\ dirty' = FALSE
  /\ hookForm' = NoForm
  /\ hookValues' = Undef
  /\ deps' = NoDeps
  /\ closure' = [form |-> NoForm, options |-> options, external |-> NoValues]
  /\ ret' = [values |-> Undef, form |-> NoForm]
  /\ queue' = IF cleanup # NoForm THEN <<"cleanup">> ELSE <<>>
  /\ NoCalls
  /\ UNCHANGED <<nodeEnv, options, cleanup, engineVars, changes>>

\* the parent renders the component with another value of one option
SetOption(key, value) ==
  /\ mounted /\ queue = <<>> /\ changes < MaxChanges
  /\ options[key] # value
  /\ options' = [options EXCEPT ![key] = value]
  /\ dirty' = TRUE
  /\ changes' = changes + 1
  /\ NoCalls
  /\ UNCHANGED <<nodeEnv, mounted, hookForm, hookValues, closure, ret, deps,
                 cleanup, queue, engineVars>>

\* the value listener of the binding is called: setValues(form.values)
Told(f, tree) ==
  IF f \in listeners
  THEN hookValues' = tree /\ dirty' = mounted
  ELSE UNCHANGED <<hookValues, dirty>>

\* the user puts the focus on a field of a registered form
Focus(f, path) ==
  /\ queue = <<>> /\ f \in RegisteredForms
  /\ path \in DOMAIN forms[f].fieldStates
  /\ ActivePaths(forms[f]) = {}
  /\ forms' = [forms EXCEPT ![f].fieldStates[path] = TRUE]
  /\ NoCalls
  /\ UNCHANGED <<nodeEnv, options, mounted, reactVars, registry, listeners,
                 history, changes>>

\* the user takes the focus off a field
Blur(f, path) ==
  /\ queue = <<>> /\ f \in RegisteredForms
  /\ path \in ActivePaths(forms[f])
  /\ forms' = [forms EXCEPT ![f].fieldStates[path] = FALSE]
  /\ NoCalls
  /\ UNCHANGED <<nodeEnv, options, mounted, reactVars, registry, listeners,
                 history, changes>>

\* the user types a value into the field that has the focus
Edit(f, path, value) ==
  /\ queue = <<>> /\ f \in RegisteredForms
  /\ path \in ActivePaths(forms[f])
  /\ change(forms[f].values, path, value) \notin {Throw, forms[f].values}
  /\ forms' = [forms EXCEPT ![f].values = change(@, path, value)]
  /\ Told(f, change(forms[f].values, path, value))
  /\ NoCalls
  /\ UNCHANGED <<nodeEnv, options, mounted, hookForm, closure, ret, deps, cleanup,
                 queue, registry, listeners, history, changes>>

\* the exported findInactiveFieldsInPath(form, path) is called: the call is
\* the one call to be made
Begin(f, path) ==
  /\ f \in DOMAIN forms
  /\ stack = <<>>
  /\ stack' = <<path>>
  /\ expanded' = [ran |-> FALSE, form |-> f, path |-> path, paths |-> <<>>]
  /\ UNCHANGED <<nodeEnv, options, mounted, reactVars, engineVars, calls, lastSync,
                 changes>>

\* one call of findInactiveFieldsInPath, the next to be made: on a path with
\* INDEX its loop makes the calls of the index paths, which come before the
\* calls that were waiting; a path without INDEX is pushed if it is inactive
Invoke ==
  /\ stack # <<>> /\ Len(stack) <= MaxStack
  /\ LET path == Head(stack)
         form == forms[expanded.form]
     IN IF TestINDEX(path)
        THEN LET listPath == ListPath(path)
                 listState == getOr(form.values, listPath, List(<<>>))
                 subcalls == [i \in 1..ListLength(listState) |-> IndexPath(path, i - 1)]
             IN /\ stack' = subcalls \o Tail(stack)
                /\ expanded' = [expanded EXCEPT !.ran = (stack' = <<>>)]
        ELSE /\ stack' = Tail(stack)
             /\ expanded' = [expanded EXCEPT
                               !.paths = IF InactiveTest(form, path)
                                         THEN Append(@, path) ELSE @,
                               !.ran = (Tail(stack) = <<>>)]
  /\ UNCHANGED <<nodeEnv, options, mounted, reactVars, engineVars, calls, lastSync,
                 changes>>

\* a call of the exported findInactiveFieldsInPath(form, path)
Expand(f, path) ==
  /\ f \in DOMAIN forms
  /\ expanded' = [ran |-> TRUE, form |-> f, path |-> path,
                  paths |-> findInactiveFieldsInPath(forms[f], path)]
  /\ UNCHANGED <<nodeEnv, options, mounted, reactVars, engineVars, calls, lastSync,
                 stack, changes>>

----------------------------------------------------------------------------
(* The binding's life                                                      *)

Ids == {1, 2}
FieldDefinitions == {1, 2}
Labels == {1, 2}
InitialValues == {NoValues, Ref(1, Obj([title |-> Str(<<"a">>)])),
                  Ref(2, Obj([title |-> Str(<<"b">>)]))}
CurrentValues == {NoValues, Ref(3, Obj([title |-> Str(<<"b">>)])),
                  Ref(4, Obj([title |-> Str(<<"c">>)]))}

\* the values an option may take
OptionValues(key) ==
  CASE key = "id" -> Ids
    [] key = "initialValues" -> InitialValues
    [] key = "fields" -> FieldDefinitions
    [] key = "label" -> Labels
    [] key = "currentValues" -> CurrentValues

\* before the component is mounted
Init ==
  /\ nodeEnv \in {"development", "production"}
  /\ options \in [id : {1}, initialValues : InitialValues \ {Ref(2, Obj([title |-> Str(<<"b">>)]))},
                  fields : {1}, label : {1},
                  currentValues : {NoValues, Ref(3, Obj([title |-> Str(<<"b">>)]))}]
  /\ mounted = FALSE
  /\ hookForm = NoForm
  /\ hookValues = Undef
  /\ closure = [form |-> NoForm, options |-> options, external |-> NoValues]
  /\ ret = [values |-> Undef, form |-> NoForm]
  /\ deps = NoDeps
  /\ cleanup = NoForm
  /\ queue = <<>>
  /\ dirty = FALSE
  /\ forms = <<>>
  /\ registry = <<>>
  /\ listeners = {}
  /\ history = <<>>
  /\ calls = <<>>
  /\ lastSync = NoSync
  /\ expanded = NoExpansion
  /\ stack = <<>>
  /\ changes = 0

Next ==
  \/ Mount
  \/ Render
  \/ CleanupEffect
  \/ CreateFormEffect
  \/ UpdateFieldsEffect
  \/ LabelEffect
  \/ SyncEffect
  \/ Unmount
  \/ \E key \in {"id", "initialValues", "fields", "label", "currentValues"} :
       \E value \in OptionValues(key) : SetOption(key, value)
  \/ \E f \in RegisteredForms, path \in {pTitle, pAuthorName} : Focus(f, path)
  \/ \E f \in RegisteredForms, path \in {pTitle, pAuthorName} : Blur(f, path)
  \/ \E f \in RegisteredForms : Edit(f, pTitle, Str(<<"e">>))

Spec == Init /\ [][Next]_vars

----------------------------------------------------------------------------
(* The inputs of the reconciler                                            *)

S(c) == Str(<<c>>)

\* an object of the properties that are not undefined
ObjOf(props) ==
  Obj([key \in {q \in DOMAIN props : props[q] # Undef} |-> props[key]])

\* the sequences of at most n items
ListsOver(items, n) == UNION {[1..m -> items] : m \in 0..n}

\* the sequences of at most n distinct patterns
SeqsOf(patterns, n) ==
  {q \in ListsOver(patterns, n) : \A i, j \in 1..Len(q) : q[i] = q[j] => i = j}

\* a document: a title, an author with a name
Docs(titles, names) ==
  {ObjOf([title |-> t, author |-> a]) :
     t \in {Undef} \cup titles,
     a \in {Undef, Obj(NoProps)} \cup {Obj([name |-> n]) : n \in names}}

\* a document with a list of authors, each with a name
AuthorLists(name) ==
  {Obj([authors |-> List([i \in 1..m |-> Obj([name |-> name])])]) : m \in 0..MaxLen}

\* the values trees of a form whose fields are title, author.name and authors.INDEX.name
SyncFormTrees == Docs({S("a")}, {S("a")}) \cup AuthorLists(S("a"))

\* the external values: trees of the same shape, with the same or other
\* leaves, or none
SyncExternalTrees ==
  Docs({S("a"), S("b")}, {S("b")}) \cup AuthorLists(S("b")) \cup {Undef}

SyncPatterns == {pTitle, pAuthor, pAuthorName, pAuthorsName}

\* the concrete paths of a pattern in a tree
ConcretePaths(pattern) ==
  IF TestINDEX(pattern) THEN {IndexPath(pattern, i) : i \in 0..(MaxLen - 1)}
  ELSE {pattern}

\* the field states of a form: the declared fields are registered with the
\* form engine, and at most one field has the focus
FieldStatesOf(declared) ==
  LET registered == UNION {ConcretePaths(declared[i]) : i \in 1..Len(declared)}
  IN {[path \in registered |-> path \in focus] :
        focus \in {{}} \cup {{path} : path \in registered}}

\* a mounted binding whose form has been created, rendered with external
\* values: the reconciliation effect is due.  With no external values the
\* initial values have become absent: the form was torn down, and the form
\* state of the hook still holds it.
BoundInit(formObject, external) ==
  LET initialValues == IF external = Undef THEN NoValues
                       ELSE Ref(1, formObject.values)
      currentValues == IF external = Undef THEN NoValues ELSE Ref(2, external)
      live == external # Undef
  IN
  /\ nodeEnv = "development"
  /\ options = [id |-> 1, initialValues |-> initialValues,
                fields |-> 1, label |-> 1, currentValues |-> currentValues]
  /\ mounted = TRUE
  /\ hookForm = 1
  /\ hookValues = formObject.values
  /\ closure = [form |-> 1, options |-> options, external |-> currentValues]
  /\ ret = [values |-> formObject.values, form |-> 1]
  /\ deps = [createForm |-> <<1, initialValues>>,
             updateFields |-> <<1, 1>>, label |-> <<1, 1>>,
             sync |-> <<1, currentValues>>]
  /\ cleanup = IF live THEN 1 ELSE NoForm
  /\ queue = <<"sync">>
  /\ dirty = FALSE
  /\ forms = <<formObject>>
  /\ registry = IF live THEN Registered(<<>>, 1, 1) ELSE <<>>
  /\ listeners = IF live THEN {1} ELSE {}
  /\ history = <<[subscribed |-> 1, unsubscribed |-> IF live THEN 0 ELSE 1,
                  removed |-> IF live THEN 0 ELSE 1]>>
  /\ calls = <<>>
  /\ lastSync = NoSync
  /\ expanded = NoExpansion
  /\ stack = <<>>
  /\ changes = 0

SyncInit ==
  \E tree \in SyncFormTrees, external \in SyncExternalTrees,
     hidden \in SeqsOf(SyncPatterns, MaxPatterns),
     declared \in SeqsOf(SyncPatterns, MaxPatterns) :
    /\ Len(hidden) + Len(declared) <= MaxPatterns
    /\ \E fieldStates \in FieldStatesOf(declared) :
         BoundInit(FormObject(1, 1, 1, tree, hidden, declared, fieldStates), external)

SyncNext == SyncEffect

\* one run of the reconciler on every form state and every external tree
SpecSync == SyncInit /\ [][SyncNext]_vars

----------------------------------------------------------------------------
(* The inputs of the pattern expansion                                     *)

\* the lists of at most MaxLen books, none with a title
BookLists == {List([j \in 1..m |-> Obj(NoProps)]) : m \in 0..MaxLen}

\* an author: nameless, named, or with a list of books
AuthorItems ==
  {Obj(NoProps), Obj([name |-> S("a")])} \cup {Obj([books |-> b]) : b \in BookLists}

\* what stands at authors: nothing, a list of authors, or a value that is no list
ExpandTrees ==
  {ObjOf([title |-> S("a"), authors |-> a]) :
     a \in {Undef, Str(<<>>), Str(<<"a", "b">>), Num(0), Num(5),
            Obj([name |-> S("a")])}
           \cup {List(l) : l \in ListsOver(AuthorItems, MaxLen)}}

ExpandPatterns == {pTitle, pAuthorsName, pBooksTitle}

\* the concrete paths of the expansion patterns in a tree of ExpandTrees
ExpandConcretePaths ==
  {pTitle} \cup {IndexPath(pAuthorsName, i) : i \in 0..(MaxLen - 1)}
    \cup {IndexPath(IndexPath(pBooksTitle, i), j) : i, j \in 0..(MaxLen - 1)}

ExpandInit ==
  \E tree \in ExpandTrees,
     focus \in {{}} \cup {{path} : path \in ExpandConcretePaths} :
    BoundInit(FormObject(1, 1, 1, tree, <<>>, <<pTitle, pAuthorsName, pBooksTitle>>,
                         [path \in ExpandConcretePaths |-> path \in focus]),
              Undef)

ExpandNext == \E path \in ExpandPatterns : Expand(1, path)

\* calls of findInactiveFieldsInPath on every form values tree
SpecExpand == ExpandInit /\ [][ExpandNext]_vars

----------------------------------------------------------------------------
(* The reconciler's claims                                                 *)

\* the form of the last run of the reconciler
SyncedForm == forms[lastSync.form]

\* the patterns registered on a form
Patterns(form) ==
  {form.hiddenFields[i] : i \in 1..Len(form.hiddenFields)}
    \cup {form.fieldSubscriptions[i] : i \in 1..Len(form.fieldSubscriptions)}

\* C1: after one run of the reconciler, the form's value at every concrete
\* path whose field state reports active is the value it had before the run.
C1_ActiveUntouched ==
  lastSync.ran =>
    \A path \in ActivePaths(SyncedForm) :
      getIn(lastSync.after, path) = getIn(lastSync.before, path)

\* C2: for every registered path without INDEX whose field state is missing
\* or not active, after one run of the reconciler the form's value at the
\* path is the value at that path in the external values.
C2_InactiveOverwritten ==
  lastSync.ran =>
    \A path \in Patterns(SyncedForm) :
      (~TestINDEX(path) /\ ~IsActive(SyncedForm, path)) =>
        getIn(lastSync.after, path) = get(lastSync.external, path)

\* C2's case: title is declared beside another pattern and is not active,
\* the form held one title and the external values another
C2_Witness ==
  /\ lastSync.ran
  /\ Len(SyncedForm.hiddenFields) + Len(SyncedForm.fieldSubscriptions) = MaxPatterns
  /\ pTitle \in Patterns(SyncedForm)
  /\ ~IsActive(SyncedForm, pTitle)
  /\ getIn(lastSync.before, pTitle) = S("a")
  /\ get(lastSync.external, pTitle) = S("b")
  /\ getIn(lastSync.after, pTitle) = S("b")

\* the paths of the overwrite set that have no value in the external values
MissingExternal ==
  {lastSync.paths[i] : i \in {j \in 1..Len(lastSync.paths) :
                                get(lastSync.external, lastSync.paths[j]) = Undef}}

\* C4, as claimed: a path of the overwrite set with no external value keeps
\* the value the form had before the run, and no error is raised.
C4_MissingExternalKept ==
  lastSync.ran =>
    /\ ~lastSync.threw
    /\ \A path \in MissingExternal :
         getIn(lastSync.after, path) = getIn(lastSync.before, path)

\* C4, amended: a path of the overwrite set with no external value is
\* written as undefined: after the run the form holds no value at the path,
\* and no error is raised.
C4_MissingExternalCleared ==
  lastSync.ran =>
    /\ ~lastSync.threw
    /\ \A path \in MissingExternal : getIn(lastSync.after, path) = Undef

\* C4's case: the form held a value at a path of the overwrite set that the
\* external values do not have
C4_Witness ==
  /\ lastSync.ran
  /\ \E path \in MissingExternal :
       /\ getIn(lastSync.before, path) # Undef
       /\ getIn(lastSync.after, path) = Undef

----------------------------------------------------------------------------
(* The expansion's claims                                                  *)

\* the form of the last call of findInactiveFieldsInPath
ExpandedForm == forms[expanded.form]

\* what the form's values hold at the list path of the expanded pattern
ExpandedPrefix == get(ExpandedForm.values, ListPath(expanded.path))

\* C5: for a pattern with INDEX whose list path is absent from the form's
\* values or holds a value that is no list, or an empty list, the expansion
\* yields no path.
C5_NonListYieldsNothing ==
  (/\ expanded.ran
   /\ TestINDEX(expanded.path)
   /\ (ExpandedPrefix.kind # "list" \/ ExpandedPrefix.payload = <<>>))
    => expanded.paths = <<>>

RECURSIVE Flatten(_)
Flatten(seqs) == IF seqs = <<>> THEN <<>> ELSE Head(seqs) \o Flatten(Tail(seqs))

\* the authors of a values tree whose authors are absent or a list
AuthorsOf(tree) ==
  IF "authors" \in DOMAIN tree.payload THEN tree.payload["authors"].payload ELSE <<>>

\* the books of an author
BooksOf(author) ==
  IF "books" \in DOMAIN author.payload THEN author.payload["books"].payload ELSE <<>>

\* the paths the documentation of findInactiveFieldsInPath gives for a pattern
DocumentedPaths(tree, pattern) ==
  CASE pattern = pAuthorsName ->
         [i \in 1..Len(AuthorsOf(tree)) |->
            <<"authors", ".", ToString(i - 1), ".", "name">>]
    [] pattern = pBooksTitle ->
         Flatten([i \in 1..Len(AuthorsOf(tree)) |->
                    [j \in 1..Len(BooksOf(AuthorsOf(tree)[i])) |->
                       <<"authors", ".", ToString(i - 1), ".", "books", ".",
                         ToString(j - 1), ".", "title">>]])
    [] OTHER -> <<pattern>>

\* the values hold a list of authors, or no authors
AuthorsIsListOrAbsent(tree) ==
  "authors" \in DOMAIN tree.payload => tree.payload["authors"].kind = "list"

\* C6: with no field active, findInactiveFieldsInPath yields exactly the
\* concrete paths of the indices of the form's lists at each INDEX, each
\* once, in ascending order, nested lists included; a pattern without INDEX
\* yields itself.
C6_ExpansionAsDocumented ==
  (/\ expanded.ran
   /\ ActivePaths(ExpandedForm) = {}
   /\ AuthorsIsListOrAbsent(ExpandedForm.values))
    => expanded.paths = DocumentedPaths(ExpandedForm.values, expanded.path)

\* C6's case: the nested pattern on one author who holds two books
C6_Witness ==
  /\ expanded.ran
  /\ ActivePaths(ExpandedForm) = {}
  /\ expanded.path = pBooksTitle
  /\ AuthorsIsListOrAbsent(ExpandedForm.values)
  /\ Len(AuthorsOf(ExpandedForm.values)) = 1
  /\ expanded.paths = << <<"authors", ".", "0", ".", "books", ".", "0", ".", "title">>,
                         <<"authors", ".", "0", ".", "books", ".", "1", ".", "title">> >>

\* C3, as claimed: a subscribed value listener is called exactly once per
\* run of the reconciler, with all the writes of the run made.
C3_ExactlyOneNotification ==
  (lastSync.ran /\ lastSync.listening) =>
    /\ Len(lastSync.seen) = 1
    /\ \A i \in 1..Len(lastSync.seen) : lastSync.seen[i] = lastSync.after

\* C3, amended: a subscribed value listener is called at most once per run
\* of the reconciler, once when the run changed the values, and what it is
\* shown holds all the writes of the run, never a part of them.
C3_OneBatch ==
  (lastSync.ran /\ lastSync.listening) =>
    /\ Len(lastSync.seen) <= 1
    /\ lastSync.after # lastSync.before => Len(lastSync.seen) = 1
    /\ \A i \in 1..Len(lastSync.seen) : lastSync.seen[i] = lastSync.after

\* C3's case: a run that changed the values at two paths, and one call of
\* the listener
C3_Witness ==
  /\ lastSync.ran /\ lastSync.listening
  /\ Len(lastSync.seen) = 1
  /\ \E i, j \in 1..Len(lastSync.paths) :
       /\ lastSync.paths[i] # lastSync.paths[j]
       /\ getIn(lastSync.before, lastSync.paths[i]) # getIn(lastSync.after, lastSync.paths[i])
       /\ getIn(lastSync.before, lastSync.paths[j]) # getIn(lastSync.after, lastSync.paths[j])

----------------------------------------------------------------------------
(* The binder's claims                                                     *)

\* C7: at most one form of the binding is registered at any time, and when
\* a form is created the form before it has been deregistered.
C7_OneRegistration ==
  /\ Cardinality(DOMAIN registry) <= 1
  /\ \A i \in 1..Len(calls) :
       calls[i].op = "createForm" => RegisteredForms = {calls[i].form}

\* C7's case: the identifier changed while a form was live, and the form
\* of the new identifier is the registered one
C7_Witness ==
  /\ mounted
  /\ Len(forms) >= 2
  /\ forms[1].id # forms[2].id
  /\ RegisteredForms = {2}

\* the binding is unmounted and its cleanup has run
Unmounted == ~mounted /\ queue = <<>>

\* C8: after unmount no form of the binding is registered, no listener of
\* the binding is subscribed, and every form was subscribed to, unsubscribed
\* from and removed exactly once.
C8_AllReleased ==
  Unmounted =>
    /\ registry = <<>>
    /\ listeners = {}
    /\ Len(history) = Len(forms)
    /\ \A f \in 1..Len(forms) :
         history[f] = [subscribed |-> 1, unsubscribed |-> 1, removed |-> 1]

\* C8's case: unmounted after two forms were created
C8_Witness == Unmounted /\ Len(forms) >= 2

\* C9: in every teardown the unsubscribe comes before the removeForm of the
\* form, and the listener is subscribed to registered forms only.
C9_UnsubscribeFirst ==
  /\ listeners \subseteq RegisteredForms
  /\ \A i \in 1..Len(calls) :
       calls[i].op = "removeForm" =>
         \E j \in 1..(i - 1) : calls[j] = Call("unsubscribe", calls[i].form)

\* C9's case: a teardown while the component stays mounted
C9_Witness ==
  /\ mounted
  /\ \E i \in 1..Len(calls) : calls[i].op = "removeForm"

\* the effects of the last render have run and no render is due
Settled == mounted /\ ~dirty /\ queue = <<>>

\* C10: whenever the configuration supplies no initial values, once the
\* effects have settled useCMSForm has returned the absent initial values
\* and an absent form handle.
C10_AbsentHandle ==
  (Settled /\ options.initialValues = NoValues) =>
    ret = [values |-> Undef, form |-> NoForm]

\* C11: while no form is bound, before the first form is created or when
\* the configuration supplies no initial values, a reconciliation trigger
\* reads no field state and writes nothing: no run of the reconciler, no
\* batch.
C11_UnboundNoRun ==
  (closure.form = NoForm \/ closure.options.initialValues = NoValues) =>
    /\ ~lastSync.ran
    /\ \A i \in 1..Len(calls) : calls[i].op # "batch"

\* a render of the mounted component outside production
RenderStep ==
  /\ ~IsProduction
  /\ mounted /\ mounted'
  /\ dirty /\ queue = <<>>
  /\ ~dirty'

\* C12: a render with the form handle and the external values reference of
\* the render before it queues no run of the reconciler.
C12_SyncOnlyOnChange ==
  [][(/\ RenderStep
      /\ hookForm = closure.form
      /\ OrElse(options.currentValues, options.initialValues) = closure.external)
       => \A i \in 1..Len(queue') : queue'[i] # "sync"]_vars

\* C12's case: the user edited the title and left the field, the render the
\* edit caused has run with its effects, and the form still holds the edit,
\* not the external value
C12_Witness ==
  /\ Settled
  /\ hookForm # NoForm
  /\ hookForm \in RegisteredForms
  /\ ActivePaths(forms[hookForm]) = {}
  /\ getIn(forms[hookForm].values, pTitle) = Str(<<"e">>)
  /\ get(closure.external.tree, pTitle) # Str(<<"e">>)
  /\ ret.values = forms[hookForm].values

\* C13: in production every call of useCMSForm returns the initial values
\* of the configuration and no form handle, and no form is ever created,
\* registered, subscribed to or reconciled.
C13_ProductionStatic ==
  nodeEnv = "production" =>
    /\ ret.form = NoForm
    /\ (mounted /\ ~dirty) => ret.values = options.initialValues.tree
    /\ forms = <<>> /\ registry = <<>> /\ listeners = {} /\ history = <<>>
    /\ calls = <<>> /\ ~lastSync.ran
    /\ queue = <<>>

\* C13's case: in production, a render after the initial values changed
C13_Witness ==
  /\ nodeEnv = "production"
  /\ mounted /\ ~dirty
  /\ changes >= 2
  /\ options.initialValues = Ref(2, Obj([title |-> Str(<<"b">>)]))
  /\ ret = [values |-> Obj([title |-> Str(<<"b">>)]), form |-> NoForm]

\* an effect that updates the form in place is about to run
UpdateInPlace == queue # <<>> /\ Head(queue) \in {"updateFields", "label"}

\* C16: a render in which the identifier and the initial values reference
\* are those of the render before it queues neither the teardown nor the
\* createForm effect and returns the form handle it held; the updateFields
\* and label effects leave the registry, the subscriptions and the form
\* handle alone and call only updateFields or set the label.
C16_UpdateInPlace ==
  [][/\ (/\ RenderStep
         /\ options.id = closure.options.id
         /\ options.initialValues = closure.options.initialValues)
          => /\ \A i \in 1..Len(queue') : queue'[i] \notin {"cleanup", "createForm"}
             /\ ret'.form = hookForm
     /\ UpdateInPlace
          => /\ UNCHANGED <<registry, listeners, history, hookForm, cleanup>>
             /\ Len(forms') = Len(forms)
             /\ \A i \in 1..Len(calls') : calls'[i].op \in {"updateFields", "label"}
    ]_vars

\* C16's case: the field definitions and the label of the live form were
\* changed and its effects have run: the one form ever created holds them,
\* is registered and subscribed to, and is the handle returned
C16_Witness ==
  /\ Settled
  /\ Len(forms) = 1
  /\ forms[1].fields = 2 /\ forms[1].label = 2
  /\ forms[1].fieldSubscriptions = DeclaredPaths(2)
  /\ RegisteredForms = {1} /\ listeners = {1}
  /\ history[1] = [subscribed |-> 1, unsubscribed |-> 0, removed |-> 0]
  /\ ret.form = 1

\* C19: the writes of the reconciler and the updateFields and label updates
\* of the binder are made on a registered form only.
C19_RegisteredOnly ==
  \A i \in 1..Len(calls) :
    calls[i].op \in {"updateFields", "label", "batch"} =>
      calls[i].form \in RegisteredForms

----------------------------------------------------------------------------
(* The reconciler and the lists of the form                                *)

\* how long the list of authors of a values tree is, 0 if it has none
AuthorCount(tree) == Length(getOr(tree, <<"authors">>, List(<<>>)))

\* the concrete paths of authors.INDEX.name among the paths of the last run
AuthorPathsWritten ==
  SelectSeq(lastSync.paths, LAMBDA path : Len(path) = 5 /\ path[1] = "authors")

\* how often a path is in a sequence of paths
Count(paths, path) == Cardinality({i \in 1..Len(paths) : paths[i] = path})

\* C14: the concrete paths a run writes through authors.INDEX.name are
\* those of the indices of the form's own list of authors at the start of
\* the run, whatever the external values hold: none at or beyond its
\* length, and with no field active each index once for every registration
\* of the pattern.
C14_FormListOnly ==
  lastSync.ran =>
    LET length == AuthorCount(lastSync.before)
        registered == SyncedForm.hiddenFields \o SyncedForm.fieldSubscriptions
    IN /\ \A i \in 1..Len(AuthorPathsWritten) :
            \E k \in 0..(length - 1) : AuthorPathsWritten[i] = IndexPath(pAuthorsName, k)
       /\ ActivePaths(SyncedForm) = {} =>
            /\ Len(AuthorPathsWritten) = length * Count(registered, pAuthorsName)
            /\ \A k \in 0..(length - 1) :
                 Count(AuthorPathsWritten, IndexPath(pAuthorsName, k))
                   = Count(registered, pAuthorsName)
       /\ AuthorCount(lastSync.after) <= length

\* C14's case: the form holds one author, the external values two
C14_Witness ==
  /\ lastSync.ran
  /\ AuthorCount(lastSync.before) = 1
  /\ AuthorCount(lastSync.external) = 2
  /\ lastSync.paths = <<IndexPath(pAuthorsName, 0)>>
  /\ getIn(lastSync.after, IndexPath(pAuthorsName, 0)) = S("b")
  /\ AuthorCount(lastSync.after) = 1

\* a sequence without its repetitions: the first occurrence of each item
RECURSIVE Dedupe(_)
Dedupe(paths) ==
  IF paths = <<>> THEN <<>>
  ELSE LET front == Dedupe(SubSeq(paths, 1, Len(paths) - 1))
           last == paths[Len(paths)]
       IN IF Count(front, last) > 0 THEN front ELSE Append(front, last)

\* C17: the values after a run are the values the same writes give when
\* every repeated concrete path of the overwrite list is written once.
C17_DuplicatesHarmless ==
  lastSync.ran =>
    forEachChange(lastSync.before, Dedupe(lastSync.paths), lastSync.external, <<>>).values
      = lastSync.after

\* C17's case: a path registered both as hidden and as declared is in the
\* overwrite list twice and the run changed its value
C17_Witness ==
  /\ lastSync.ran
  /\ pTitle \in {SyncedForm.hiddenFields[i] : i \in 1..Len(SyncedForm.hiddenFields)}
  /\ pTitle \in {SyncedForm.fieldSubscriptions[i] : i \in 1..Len(SyncedForm.fieldSubscriptions)}
  /\ Count(lastSync.paths, pTitle) = 2
  /\ Dedupe(lastSync.paths) # lastSync.paths
  /\ getIn(lastSync.before, pTitle) # getIn(lastSync.after, pTitle)

----------------------------------------------------------------------------
(* The calls of the pattern expansion, one at a time                       *)

pTags == <<"tags", ".", "INDEX">>
pReindexName == <<"re", "INDEX", ".", "INDEX", ".", "name">>
pIndexName == <<"INDEX", ".", "name">>

\* lists of scalars
TagLists == {List([i \in 1..m |-> S("a")]) : m \in 0..MaxLen}

\* lists of authors who hold as many books each
AuthorsWithBooks ==
  {List([i \in 1..m |-> Obj([books |-> b])]) : m \in 0..MaxLen, b \in BookLists}

\* form values with a list of scalars at tags, a list at the key reINDEX, a
\* list at the key INDEX and authors with books
CallTrees ==
  {ObjOf([title |-> S("a"), tags |-> t, reINDEX |-> r, INDEX |-> x, authors |-> a]) :
     t \in TagLists,
     r \in {Undef, List([i \in 1..MaxLen |-> Obj([name |-> S("a")])])},
     x \in {Undef, List(<<Obj([name |-> S("a")])>>)},
     a \in {Undef} \cup AuthorsWithBooks}

CallPatterns == {pTitle, pTags, pReindexName, pIndexName, pAuthorsName, pBooksTitle}

CallsInit ==
  \E tree \in CallTrees :
    BoundInit(FormObject(1, 1, 1, tree, <<>>, <<pTitle>>, [path \in {pTitle} |-> FALSE]),
              Undef)

CallsNext ==
  \/ \E path \in CallPatterns : Begin(1, path)
  \/ Invoke

\* Invoke can be taken and changes the stack: ENABLED <<Invoke>>_stack
InvokeEnabled == stack # <<>> /\ Len(stack) <= MaxStack

\* weak fairness of Invoke, WF_stack(Invoke), with its ENABLED written out
FairInvoke == []<>(~InvokeEnabled) \/ []<><<Invoke>>_stack

\* findInactiveFieldsInPath on every pattern and form values tree, call by
\* call; a call that has begun runs on: the function is synchronous
SpecCalls == CallsInit /\ [][CallsNext]_vars /\ FairInvoke

\* the expansion that was begun has returned
Returned == expanded.ran /\ stack = <<>>

\* the calls one at a time push the paths the function returns
StepwiseAgrees ==
  Returned => expanded.paths = findInactiveFieldsInPath(ExpandedForm, expanded.path)

\* where INDEX first stands in place of a whole segment of a path, 0 if nowhere
PlaceholderAt(path) ==
  LET at == {i \in 1..Len(path) :
               /\ path[i] = "INDEX"
               /\ (i = 1 \/ path[i - 1] = ".")
               /\ (i = Len(path) \/ path[i + 1] = ".")}
  IN IF at = {} THEN 0 ELSE CHOOSE i \in at : \A j \in at : i <= j

\* the expansion of a pattern as specified: for the first INDEX that is a
\* segment, one path prefix.i.suffix per index of the list at prefix, each
\* expanded in turn
RECURSIVE SpecifiedPaths(_, _)
SpecifiedPaths(tree, path) ==
  LET at == PlaceholderAt(path)
      prefix == SubSeq(path, 1, at - 2)
      suffix == SubSeq(path, at + 1, Len(path))
      list == IF at = 1 THEN tree ELSE get(tree, prefix)
      length == IF list.kind = "list" THEN Len(list.payload) ELSE 0
  IN IF at <= 1 THEN <<path>>
     ELSE Flatten([i \in 1..length |->
                     SpecifiedPaths(tree, prefix \o <<".", ToString(i - 1)>> \o suffix)])

\* C15: with no field active, for a pattern in which INDEX is a segment at
\* any place, the last included, or whose keys hold the text INDEX, the
\* expansion yields one path prefix.i.suffix per index of the form's list at
\* prefix.
C15_IndexAnywhere ==
  (/\ Returned
   /\ expanded.path \in {pTags, pReindexName, pAuthorsName, pBooksTitle})
    => expanded.paths = SpecifiedPaths(ExpandedForm.values, expanded.path)

\* how many times INDEX occurs in a path
Occurrences(path) == Cardinality({i \in 1..Len(path) : path[i] = "INDEX"})

\* C18: every call a call of findInactiveFieldsInPath makes is on a path
\* with fewer occurrences of INDEX than its own, the calls waiting stay
\* below their bound, and an expansion that has begun returns.
C18_Terminates ==
  /\ [][stack # <<>> =>
          \A i \in 1..(Len(stack') - Len(stack) + 1) :
            Occurrences(stack'[i]) < Occurrences(Head(stack))]_vars
  /\ [](Len(stack) < MaxStack)
  /\ (stack # <<>>) ~> Returned

\* C18's case: the expansion of the nested pattern on an author with two
\* books has returned
C18_Witness ==
  /\ Returned
  /\ expanded.path = pBooksTitle
  /\ Len(expanded.paths) >= 2
  /\ Occurrences(expanded.path) = 2

====
